---- MODULE Spec2Model ----
(***************************************************************************)
(* A model of the production-line simulation of src/main.py: the Factory,  *)
(* its six Stations, the arrival generator, the per-item routing tasks and *)
(* the restock loops, run by a discrete-event scheduler.                   *)
(*                                                                         *)
(* The scheduler is the event queue the simulation runs on: events are     *)
(* processed in order of time and, at equal times, in the order they were  *)
(* scheduled.  A process started with env.process(...) begins with an      *)
(* urgent event at the current instant, so it runs right after the step    *)
(* that started it; the model runs it as the tail of that step.  A grant   *)
(* of a waiting request or a waiting withdrawal happens when the release   *)
(* (resp. deposit) event is processed, as in the resource primitives the   *)
(* code uses.                                                              *)
(*                                                                         *)
(* Time is counted in ticks of 0.1 time units.                             *)
(***************************************************************************)
EXTENDS Integers, Sequences, FiniteSets, TLC

\* ---------------------------------------------------------------- constants
NumStations == 6
StationCapacity == 1
BinInit == 25
RestockThreshold == 5
RestockAmount == 25
DeviceCapacity == 3
CheckEvery == 5
PollDelay == 1
RestockSleep == 10
TicksPerUnit == 10
PairA == 4
PairB == 5
LastStation == 6
FaultyPercent == 5

\* the defaults of Station.__init__, in ticks
FixTimeMean == 30
WorkTimeMean == 40

\* fail_probs, in per cent
fail_probs == <<2, 1, 5, 15, 7, 6>>

\* ------------------------------------------------------------------- bounds
MaxItems == 26
Until == 71
MaxDelay == 1

Stations == 1..NumStations
Items == 1..MaxItems
NoTime == -1
Durations == {k * TicksPerUnit : k \in 0..MaxDelay}

\* random.random(), in per cent: a draw below every fail_prob, one below that
\* of station 4 only, and one above them all
Uniform == {0, 10, 50}

\* The random functions of a run are stubbed by constants: abs(normalvariate)
\* in production returns arr, normal_time work, normal_delay restock,
\* exponential_time fix, and random.random() u.
Samples == [arr : Durations, work : Durations, restock : Durations,
            fix : Durations, u : Uniform]

VARIABLES
    now,               \* env.now
    evq,               \* the scheduler's pending events, in scheduling order
    sample,            \* the values the random functions return in this run
    fail_prob,         \* Station.fail_prob, in per cent
    fix_time_mean,     \* Station.fix_time_mean, in ticks
    work_time_mean,    \* Station.work_time_mean, in ticks
    items,             \* Factory.items
    total_produced,    \* Factory.total_produced
    faulty_products,   \* Factory.faulty_products
    ppc,               \* where Factory.production is suspended
    ipc,               \* where each item's routing task is suspended
    cur,               \* the station an item's routing task is at
    pos,               \* how many process_at_station calls the item has finished
    first,             \* the station of the pair 4/5 the race selected (0: none yet)
    raceDone,          \* the raced requests whose grant event has been processed
    condTrig,          \* items whose condition req4 | req5 has triggered
    trace,             \* per item, the stations of its "finished at Station" lines
    users,             \* Station.resource.users
    queue,             \* Station.resource.put_queue
    level,             \* Station.bin.level
    getq,              \* Station.bin.get_queue
    count_since_check, \* Station.count_since_check
    is_broken,         \* Station.is_broken
    total_downtime,    \* Station.total_downtime
    last_break_time,   \* Station.last_break_time
    num_breakdowns,    \* Station.num_breakdowns
    busy_time,         \* Station.busy_time
    last_start_busy,   \* Station.last_start_busy
    rpc,               \* where each station's restock_process is suspended
    dev_users,         \* Factory.restock_devices.users
    dev_queue,         \* Factory.restock_devices.put_queue
    status_history     \* Station.status_history

confVars == <<fail_prob, fix_time_mean, work_time_mean>>
facVars == <<items, total_produced, faulty_products, ppc>>
itemVars == <<ipc, cur, pos, first, raceDone, condTrig, trace>>
resVars == <<users, queue>>
binVars == <<level, getq>>
failVars == <<count_since_check, is_broken, total_downtime, last_break_time,
              num_breakdowns>>
busyVars == <<busy_time, last_start_busy>>
restockVars == <<rpc, dev_users, dev_queue>>
vars == <<now, evq, sample, confVars, facVars, itemVars, resVars, binVars, failVars,
          busyVars, restockVars, status_history>>

\* ---------------------------------------------------------------- scheduler
Ev(kind, id, st, t) == [kind |-> kind, id |-> id, st |-> st, t |-> t]

\* evq is kept in processing order: by time and, at equal times, by the order
\* of scheduling.  e.t is the time left until event e is due.
Ready == evq # <<>> /\ Head(evq).t = 0

Cur == Head(evq)

Rest == Tail(evq)

BeforeFront(q, d) == 0

\* Where an event due in d is inserted into q: behind every event due no later.
Before(q, d) == Cardinality({k \in 1..Len(q) : q[k].t <= d})

Sched(q, e) ==
    SubSeq(q, 1, Before(q, e.t)) \o <<e>> \o SubSeq(q, Before(q, e.t) + 1, Len(q))

MinDelay == Head(evq).t

Advance(d) == [k \in 1..Len(evq) |-> [evq[k] EXCEPT !.t = @ - d]]

\* -------------------------------------------------- the station's resource
Req(i, race) == [item |-> i, race |-> race]

GrantableNoCapacity(us, qs, s) == Len(qs[s]) > 0

\* Resource._do_put on the head of the put queue: it is granted the resource
\* if fewer than capacity requests hold it.
Grantable(us, qs, s) == Len(qs[s]) > 0 /\ Len(us[s]) < StationCapacity

GrantEv(r, s) == IF r.race THEN Ev("racegrant", r.item, s, 0)
                 ELSE Ev("item", r.item, s, 0)

TrigUsers(us, qs, s) ==
    IF Grantable(us, qs, s) THEN [us EXCEPT ![s] = Append(@, Head(qs[s]))]
    ELSE us

TrigQueue(us, qs, s) ==
    IF Grantable(us, qs, s) THEN [qs EXCEPT ![s] = Tail(@)] ELSE qs

TrigEvq(us, qs, q, s) ==
    IF Grantable(us, qs, s) THEN Sched(q, GrantEv(Head(qs[s]), s)) ELSE q

Enqueue(qs, s, r) == [qs EXCEPT ![s] = Append(@, r)]

Remove(seq, x) == SelectSeq(seq, LAMBDA y : y # x)

\* ------------------------------------------------------- the status history
StatusEventAtZero(t, status) == [timestamp |-> 0, status |-> status]

StatusEvent(t, status) == [timestamp |-> t, status |-> status]

RecordFirst(h, s, t, status) ==
    [h EXCEPT ![s] = <<StatusEvent(t, status)>> \o @]

\* A status event is appended to the history of station s.
Record(h, s, t, status) == [h EXCEPT ![s] = Append(@, StatusEvent(t, status))]

\* ------------------------------------------------------------------ initial
Constructed ==
    /\ now = 0
    /\ evq = [k \in 1..(NumStations + 1) |->
                IF k <= NumStations THEN Ev("restock", k, k, 0)
                ELSE Ev("prod", 0, 0, 0)]
    /\ items = 0
    /\ total_produced = 0
    /\ faulty_products = 0
    /\ ppc = "init"
    /\ ipc = [i \in Items |-> "new"]
    /\ cur = [i \in Items |-> 0]
    /\ pos = [i \in Items |-> 0]
    /\ first = [i \in Items |-> 0]
    /\ raceDone = {}
    /\ condTrig = {}
    /\ trace = [i \in Items |-> <<>>]
    /\ users = [s \in Stations |-> <<>>]
    /\ queue = [s \in Stations |-> <<>>]
    /\ level = [s \in Stations |-> BinInit]
    /\ getq = [s \in Stations |-> <<>>]
    /\ count_since_check = [s \in Stations |-> 0]
    /\ is_broken = [s \in Stations |-> FALSE]
    /\ total_downtime = [s \in Stations |-> 0]
    /\ last_break_time = [s \in Stations |-> NoTime]
    /\ num_breakdowns = [s \in Stations |-> 0]
    /\ busy_time = [s \in Stations |-> 0]
    /\ last_start_busy = [s \in Stations |-> 0]
    /\ rpc = [s \in Stations |-> "loop"]
    /\ dev_users = <<>>
    /\ dev_queue = <<>>
    /\ status_history = [s \in Stations |-> <<>>]

\* The arguments the stations are constructed with.
Configured(fp, fm, wm) ==
    /\ fail_prob = [s \in Stations |-> fp[s]]
    /\ fix_time_mean = [s \in Stations |-> fm]
    /\ work_time_mean = [s \in Stations |-> wm]

Init ==
    /\ sample \in Samples
    /\ Configured(fail_probs, FixTimeMean, WorkTimeMean)
    /\ Constructed

\* Stations constructed with other arguments than those of Factory.__init__:
\* no failures, failure probabilities outside [0, 1], negative means.
Uniformly(x) == [s \in Stations |-> x]

Configs ==
    { [fp |-> fail_probs, fm |-> FixTimeMean, wm |-> WorkTimeMean],
      [fp |-> Uniformly(0), fm |-> FixTimeMean, wm |-> WorkTimeMean],
      [fp |-> Uniformly(150), fm |-> FixTimeMean, wm |-> WorkTimeMean],
      [fp |-> Uniformly(0 - 10), fm |-> FixTimeMean, wm |-> WorkTimeMean],
      [fp |-> fail_probs, fm |-> 0 - FixTimeMean, wm |-> WorkTimeMean],
      [fp |-> fail_probs, fm |-> FixTimeMean, wm |-> 0 - WorkTimeMean] }

ConfigInit ==
    /\ sample \in Samples
    /\ \E c \in Configs : Configured(c.fp, c.fm, c.wm)
    /\ Constructed

\* ------------------------------------------------------------------ actions
Tick ==
    /\ evq # <<>>
    /\ ~Ready
    /\ now + MinDelay < Until
    /\ now' = now + MinDelay
    /\ evq' = Advance(MinDelay)
    /\ UNCHANGED <<sample, confVars, status_history, facVars, itemVars, resVars, binVars, failVars,
                   busyVars, restockVars>>

IncItemsDown(n) == n - 1

IncItemsTwice(n) == n + 2

\* self.items += 1
IncItems(n) == n + 1

NextArrivalIfFree(q) ==
    IF users[1] = <<>> THEN Sched(q, Ev("prod", 0, 0, sample.arr)) ELSE q

\* yield self._env.timeout(waiting_time): the generator's next wake-up.
NextArrival(q) == Sched(q, Ev("prod", 0, 0, sample.arr))

\* Factory.production started: items += 1 and the first inter-arrival timeout.
ProductionStart ==
    /\ Ready /\ Cur.kind = "prod" /\ ppc = "init"
    /\ items' = IncItems(items)
    /\ ppc' = "wait"
    /\ evq' = NextArrival(Rest)
    /\ UNCHANGED <<now, sample, confVars, status_history, total_produced, faulty_products, itemVars,
                   resVars, binVars, failVars, busyVars, restockVars>>

\* Factory.production, resumed by its inter-arrival timeout: it spawns the
\* routing task of item_id, goes round the loop (items += 1, next timeout) and
\* suspends; the new task then runs up to its request for station 1.
StartUsers(us, qs, s, r) == TrigUsers(us, Enqueue(qs, s, r), s)

StartQueue(us, qs, s, r) == TrigQueue(us, Enqueue(qs, s, r), s)

StartEvq(us, qs, q, s, r) == TrigEvq(us, Enqueue(qs, s, r), q, s)

ProductionArrive ==
    /\ Ready /\ Cur.kind = "prod" /\ ppc = "wait"
    /\ LET i == items
           r == Req(i, FALSE)
           q == IF items < MaxItems
                THEN NextArrival(Rest) ELSE Rest
       IN  /\ items' = IF items < MaxItems THEN IncItems(items) ELSE items
           /\ ppc' = IF items < MaxItems THEN "wait" ELSE "capped"
           /\ ipc' = [ipc EXCEPT ![i] = "req"]
           /\ cur' = [cur EXCEPT ![i] = 1]
           /\ users' = StartUsers(users, queue, 1, r)
           /\ queue' = StartQueue(users, queue, 1, r)
           /\ evq' = StartEvq(users, queue, q, 1, r)
    /\ UNCHANGED <<now, sample, confVars, status_history, total_produced, faulty_products, pos, first,
                   raceDone, condTrig, trace, binVars, failVars, busyVars,
                   restockVars>>

\* Station.process_item up to its first suspension: the polling loop while the
\* station is broken, then the withdrawal of one unit from the bin.
EnterPc(s) == IF is_broken[s] THEN "poll" ELSE "get"

EnterLevelUnguarded(s) ==
    IF ~is_broken[s] THEN [level EXCEPT ![s] = @ - 1] ELSE level

EnterLevelTwoUnits(s) ==
    IF ~is_broken[s] /\ getq[s] = <<>> /\ level[s] >= 1
    THEN [level EXCEPT ![s] = @ - 2] ELSE level

EnterLevel(s) ==
    IF ~is_broken[s] /\ getq[s] = <<>> /\ level[s] >= 1
    THEN [level EXCEPT ![s] = @ - 1] ELSE level

EnterGetq(i, s) ==
    IF ~is_broken[s] /\ ~(getq[s] = <<>> /\ level[s] >= 1)
    THEN [getq EXCEPT ![s] = Append(@, i)] ELSE getq

EnterEvq(q, i, s) ==
    IF is_broken[s] THEN Sched(q, Ev("item", i, s, PollDelay))
    ELSE IF getq[s] = <<>> /\ level[s] >= 1 THEN Sched(q, Ev("item", i, s, 0))
    ELSE q

\* process_at_station resumed by the grant of its request (or process_item
\* resumed by its polling timeout): process_item runs to its next suspension.
BeginProcessItem ==
    /\ Ready /\ Cur.kind = "item" /\ ipc[Cur.id] \in {"req", "poll"}
    /\ LET i == Cur.id
           s == cur[i]
       IN  /\ ipc' = [ipc EXCEPT ![i] = EnterPc(s)]
           /\ level' = EnterLevel(s)
           /\ getq' = EnterGetq(i, s)
           /\ evq' = EnterEvq(Rest, i, s)
    /\ UNCHANGED <<now, sample, confVars, status_history, facVars, cur, pos, first, raceDone, condTrig,
                   trace, resVars, failVars, busyVars, restockVars>>

\* process_item resumed by its withdrawal: start_processing and the
\* processing timeout.
StartProcessing ==
    /\ Ready /\ Cur.kind = "item" /\ ipc[Cur.id] = "get"
    /\ LET i == Cur.id
           s == cur[i]
       IN  /\ last_start_busy' = [last_start_busy EXCEPT ![s] = now]
           /\ ipc' = [ipc EXCEPT ![i] = "work"]
           /\ evq' = Sched(Rest, Ev("item", i, s, sample.work))
    /\ status_history' =
           Record(status_history, cur[Cur.id], now, "Operational")
    /\ UNCHANGED <<now, sample, confVars, facVars, cur, pos, first, raceDone, condTrig,
                   trace, resVars, binVars, failVars, busy_time, restockVars>>

\* Station.check_for_failure: the counter after the call, and its result for
\* the draw u of random.random().
CheckCountLate(c) == IF c + 1 > CheckEvery THEN 0 ELSE c + 1

CheckCount(c) == IF c + 1 >= CheckEvery THEN 0 ELSE c + 1

CheckFailsAtOrBelow(c, s, u) == c + 1 >= CheckEvery /\ u <= fail_prob[s]

CheckFails(c, s, u) == c + 1 >= CheckEvery /\ u < fail_prob[s]

FinishBusyFromZero(busy, t, started) == busy + t

\* finish_processing: busy_time += env.now - last_start_busy
FinishBusy(busy, t, started) == busy + (t - started)

exponential_timeNegated(mean, x) == 0 - x

\* exponential_time(mean) for a draw of magnitude x: random.expovariate(1/mean)
\* has the sign of the mean.
exponential_time(mean, x) == IF mean < 0 THEN 0 - x ELSE x

\* process_item resumed by its processing timeout: finish_processing,
\* check_for_failure and, on a failure, break_station up to its repair timeout.
\* A negative repair time makes env.timeout raise: the error leaves
\* break_station and every task above it, and the run ends with it.
FinishProcessing ==
    /\ Ready /\ Cur.kind = "item" /\ ipc[Cur.id] = "work"
    /\ LET i == Cur.id
           s == cur[i]
           c == count_since_check[s]
           d == exponential_time(fix_time_mean[s], sample.fix)
       IN    /\ busy_time' = [busy_time EXCEPT
                                ![s] = FinishBusy(@, now, last_start_busy[s])]
             /\ count_since_check' = [count_since_check EXCEPT ![s] = CheckCount(c)]
             /\ IF CheckFails(c, s, sample.u)
                THEN /\ is_broken' = [is_broken EXCEPT ![s] = TRUE]
                     /\ num_breakdowns' = [num_breakdowns EXCEPT ![s] = @ + 1]
                     /\ last_break_time' = [last_break_time EXCEPT ![s] = now]
                     /\ IF d < 0
                        THEN /\ ipc' = [ipc EXCEPT ![i] = "error"]
                             /\ evq' = <<>>
                        ELSE /\ ipc' = [ipc EXCEPT ![i] = "fix"]
                             /\ evq' = Sched(Rest, Ev("item", i, s, d))
                ELSE /\ UNCHANGED <<is_broken, num_breakdowns, last_break_time>>
                     /\ ipc' = [ipc EXCEPT ![i] = "pi_done"]
                     /\ evq' = Sched(Rest, Ev("item", i, s, 0))
    /\ status_history' =
           IF CheckFails(count_since_check[cur[Cur.id]], cur[Cur.id], sample.u)
           THEN Record(Record(status_history, cur[Cur.id], now, "Operational"),
                       cur[Cur.id], now, "Down")
           ELSE Record(status_history, cur[Cur.id], now, "Operational")
    /\ UNCHANGED <<now, sample, confVars, facVars, cur, pos, first, raceDone, condTrig,
                   trace, resVars, binVars, total_downtime, last_start_busy,
                   restockVars>>

RepairDowntime(down, t, broke) == down + (t - broke)

\* break_station resumed by its repair timeout.
Repaired ==
    /\ Ready /\ Cur.kind = "item" /\ ipc[Cur.id] = "fix"
    /\ LET i == Cur.id
           s == cur[i]
       IN  /\ is_broken' = [is_broken EXCEPT ![s] = FALSE]
           /\ total_downtime' = [total_downtime EXCEPT
                                   ![s] = RepairDowntime(@, now, last_break_time[s])]
           /\ last_break_time' = [last_break_time EXCEPT ![s] = NoTime]
           /\ ipc' = [ipc EXCEPT ![i] = "fixed"]
           /\ evq' = Sched(Rest, Ev("item", i, s, 0))
    /\ status_history' = Record(status_history, cur[Cur.id], now, "Down")
    /\ UNCHANGED <<now, sample, confVars, facVars, cur, pos, first, raceDone, condTrig,
                   trace, resVars, binVars, count_since_check, num_breakdowns,
                   busyVars, restockVars>>

\* process_item resumed by the end of break_station: it ends too.
AfterRepair ==
    /\ Ready /\ Cur.kind = "item" /\ ipc[Cur.id] = "fixed"
    /\ ipc' = [ipc EXCEPT ![Cur.id] = "pi_done"]
    /\ evq' = Sched(Rest, Ev("item", Cur.id, Cur.st, 0))
    /\ UNCHANGED <<now, sample, confVars, status_history, facVars, cur, pos, first, raceDone, condTrig,
                   trace, resVars, binVars, failVars, busyVars, restockVars>>

\* The request process_at_station releases: the one passed in (the raced
\* request of the selected station) or the one of its own with block.
HeldReq(i, s) == Req(i, pos[i] = 3 /\ s = first[i])

ReleaseUsersOfItem(us, s, r) ==
    [t \in Stations |-> SelectSeq(us[t], LAMBDA y : y.item # r.item)]

ReleaseUsers(us, s, r) == [us EXCEPT ![s] = Remove(@, r)]

\* process_at_station resumed by the end of process_item: it releases its
\* request, prints its line and ends.
ReleaseStation ==
    /\ Ready /\ Cur.kind = "item" /\ ipc[Cur.id] = "pi_done"
    /\ LET i == Cur.id
           s == cur[i]
       IN  /\ users' = ReleaseUsers(users, s, HeldReq(i, s))
           /\ trace' = [trace EXCEPT ![i] = Append(@, s)]
           /\ ipc' = [ipc EXCEPT ![i] = "pas_done"]
           /\ evq' = Sched(Sched(Rest, Ev("release", 0, s, 0)),
                           Ev("item", i, s, 0))
    /\ UNCHANGED <<now, sample, confVars, status_history, facVars, cur, pos, first, raceDone, condTrig,
                   queue, binVars, failVars, busyVars, restockVars>>

\* The release event of a station's resource is processed: the head of the
\* put queue is granted the resource if it is free.
ReleaseEvent ==
    /\ Ready /\ Cur.kind = "release"
    /\ users' = TrigUsers(users, queue, Cur.st)
    /\ queue' = TrigQueue(users, queue, Cur.st)
    /\ evq' = TrigEvq(users, queue, Rest, Cur.st)
    /\ UNCHANGED <<now, sample, confVars, status_history, facVars, itemVars, binVars, failVars, busyVars,
                   restockVars>>

\* The station item_processor goes to after p finished calls (p # 3, p < 6):
\* 2 and 3, the other station of the pair 4/5, then 6.
TargetSkipsOne(i, p) ==
    IF p < 3 THEN (IF p = 1 THEN 3 ELSE p + 1)
    ELSE IF p = 4 THEN (IF first[i] = PairA THEN PairB ELSE PairA)
    ELSE LastStation

Target(i, p) ==
    IF p < 3 THEN p + 1
    ELSE IF p = 4 THEN (IF first[i] = PairA THEN PairB ELSE PairA)
    ELSE LastStation

\* The quality draw at the end of item_processor, for the draw u.
IsFaulty(u) == u < FaultyPercent

\* item_processor resumed by the end of process_at_station: the next
\* process_at_station up to its request, or the two raced requests for
\* stations 4 and 5 and the wait for req4 | req5, or the classification.
ItemNext ==
    /\ Ready /\ Cur.kind = "item" /\ ipc[Cur.id] = "pas_done"
    /\ LET i == Cur.id
           p == pos[i] + 1
           r == Req(i, FALSE)
           rr == Req(i, TRUE)
           t == Target(i, p)
           u1 == StartUsers(users, queue, PairA, rr)
           q1 == StartQueue(users, queue, PairA, rr)
           e1 == StartEvq(users, queue, Rest, PairA, rr)
       IN  /\ pos' = [pos EXCEPT ![i] = p]
           /\ IF p = 3
              THEN /\ users' = StartUsers(u1, q1, PairB, rr)
                   /\ queue' = StartQueue(u1, q1, PairB, rr)
                   /\ evq' = StartEvq(u1, q1, e1, PairB, rr)
                   /\ ipc' = [ipc EXCEPT ![i] = "race"]
                   /\ UNCHANGED <<cur, total_produced, faulty_products>>
              ELSE IF p = 6
              THEN /\ IF IsFaulty(sample.u)
                        THEN /\ faulty_products' = faulty_products + 1
                             /\ UNCHANGED total_produced
                        ELSE /\ total_produced' = total_produced + 1
                             /\ UNCHANGED faulty_products
                   /\ ipc' = [ipc EXCEPT ![i] = "done"]
                   /\ evq' = Rest
                   /\ UNCHANGED <<cur, users, queue>>
              ELSE /\ users' = StartUsers(users, queue, t, r)
                   /\ queue' = StartQueue(users, queue, t, r)
                   /\ evq' = StartEvq(users, queue, Rest, t, r)
                   /\ ipc' = [ipc EXCEPT ![i] = "req"]
                   /\ cur' = [cur EXCEPT ![i] = t]
                   /\ UNCHANGED <<total_produced, faulty_products>>
    /\ UNCHANGED <<now, sample, confVars, status_history, items, ppc, first, raceDone, condTrig, trace,
                   binVars, failVars, busyVars, restockVars>>

\* The grant event of a raced request is processed: the request counts as
\* processed, and the condition req4 | req5 triggers on the first of the two.
RaceGrant ==
    /\ Ready /\ Cur.kind = "racegrant"
    /\ raceDone' = raceDone \cup {<<Cur.id, Cur.st>>}
    /\ condTrig' = condTrig \cup {Cur.id}
    /\ evq' = IF Cur.id \in condTrig THEN Rest
              ELSE Sched(Rest, Ev("cond", Cur.id, 0, 0))
    /\ UNCHANGED <<now, sample, confVars, status_history, facVars, ipc, cur, pos, first, trace, resVars,
                   binVars, failVars, busyVars, restockVars>>

SelectedPairBFirst(i, done) == IF <<i, PairB>> \in done THEN PairB ELSE PairA

\* "req4 in res": res holds the raced requests processed by now.
Selected(i, done) == IF <<i, PairA>> \in done THEN PairA ELSE PairB

\* item_processor resumed by req4 | req5: it selects the first station of the
\* pair; process_at_station finds its request granted and process_item runs.
RaceResolve ==
    /\ Ready /\ Cur.kind = "cond"
    /\ LET i == Cur.id
           s == Selected(i, raceDone)
       IN  /\ first' = [first EXCEPT ![i] = s]
           /\ cur' = [cur EXCEPT ![i] = s]
           /\ ipc' = [ipc EXCEPT ![i] = EnterPc(s)]
           /\ level' = EnterLevel(s)
           /\ getq' = EnterGetq(i, s)
           /\ evq' = EnterEvq(Rest, i, s)
    /\ UNCHANGED <<now, sample, confVars, status_history, facVars, pos, raceDone, condTrig, trace,
                   resVars, failVars, busyVars, restockVars>>

\* ------------------------------------------------------------ restock loops
NeedsRestockNever(lv) == lv < 0

NeedsRestockAtThreshold(lv) == lv <= RestockThreshold

NeedsRestock(lv) == lv < RestockThreshold

DevGrantableNoCapacity(du, dq) == Len(dq) > 0

DevGrantable(du, dq) == Len(dq) > 0 /\ Len(du) < DeviceCapacity

DevUsers(du, dq) == IF DevGrantable(du, dq) THEN Append(du, Head(dq)) ELSE du

DevQueue(du, dq) == IF DevGrantable(du, dq) THEN Tail(dq) ELSE dq

DevEvq(du, dq, q) ==
    IF DevGrantable(du, dq) THEN Sched(q, Ev("restock", Head(dq), Head(dq), 0))
    ELSE q

\* One turn of the loop of restock_process, from its test of the bin level lv
\* to its suspension: on the request for a device, or on the 1.0 timeout.
LoopPc(lv) == IF NeedsRestock(lv) THEN "wait_dev" ELSE "loop"

LoopDevUsers(s, lv, du, dq) ==
    IF NeedsRestock(lv) THEN DevUsers(du, Append(dq, s)) ELSE du

LoopDevQueue(s, lv, du, dq) ==
    IF NeedsRestock(lv) THEN DevQueue(du, Append(dq, s)) ELSE dq

LoopEvq(s, lv, du, dq, q) ==
    IF NeedsRestock(lv) THEN DevEvq(du, Append(dq, s), q)
    ELSE Sched(q, Ev("restock", s, s, RestockSleep))

\* restock_process started, or resumed by its 1.0 timeout.
RestockCheck ==
    /\ Ready /\ Cur.kind = "restock" /\ rpc[Cur.id] = "loop"
    /\ LET s == Cur.id
       IN  /\ rpc' = [rpc EXCEPT ![s] = LoopPc(level[s])]
           /\ dev_users' = LoopDevUsers(s, level[s], dev_users, dev_queue)
           /\ dev_queue' = LoopDevQueue(s, level[s], dev_users, dev_queue)
           /\ evq' = LoopEvq(s, level[s], dev_users, dev_queue, Rest)
    /\ status_history' =
           IF NeedsRestock(level[Cur.id])
           THEN Record(status_history, Cur.id, now, "WaitingForRestock")
           ELSE status_history
    /\ UNCHANGED <<now, sample, confVars, facVars, itemVars, resVars, binVars, failVars,
                   busyVars>>

\* restock_process resumed by the grant of a restock device: the restock delay.
RestockGranted ==
    /\ Ready /\ Cur.kind = "restock" /\ rpc[Cur.id] = "wait_dev"
    /\ rpc' = [rpc EXCEPT ![Cur.id] = "delay"]
    /\ evq' = Sched(Rest, Ev("restock", Cur.id, Cur.id, sample.restock))
    /\ UNCHANGED <<now, sample, confVars, status_history, facVars, itemVars, resVars, binVars, failVars,
                   busyVars, dev_users, dev_queue>>

DepositOne(lv) == lv + 1

Deposit(lv) == lv + RestockAmount

\* restock_process resumed by its restock delay: bin.put(25).
RestockDeposit ==
    /\ Ready /\ Cur.kind = "restock" /\ rpc[Cur.id] = "delay"
    /\ rpc' = [rpc EXCEPT ![Cur.id] = "put"]
    /\ level' = [level EXCEPT ![Cur.id] = Deposit(@)]
    /\ evq' = Sched(Rest, Ev("put", Cur.id, Cur.id, 0))
    /\ UNCHANGED <<now, sample, confVars, status_history, facVars, itemVars, resVars, getq, failVars,
                   busyVars, dev_users, dev_queue>>

RECURSIVE SchedAll(_, _)
SchedAll(q, es) ==
    IF es = <<>> THEN q ELSE SchedAll(Sched(q, Head(es)), Tail(es))

\* How many waiting withdrawals of one unit a level of lv serves.
Served(lv, gq) == IF Len(gq) <= lv THEN Len(gq) ELSE IF lv > 0 THEN lv ELSE 0

Withdraw(lv, n) == lv - n

\* The deposit event is processed: the waiting withdrawals the level allows are
\* served, then restock_process leaves its with block (the device is
\* released) and goes round its loop.
PutEvent ==
    /\ Ready /\ Cur.kind = "put"
    /\ LET s == Cur.st
           n == Served(level[s], getq[s])
           lv == Withdraw(level[s], n)
           woken == [j \in 1..n |-> Ev("item", getq[s][j], s, 0)]
           du == Remove(dev_users, s)
           q == Sched(SchedAll(Rest, woken), Ev("drelease", 0, 0, 0))
       IN  /\ level' = [level EXCEPT ![s] = lv]
           /\ getq' = [getq EXCEPT ![s] = SubSeq(@, n + 1, Len(@))]
           /\ rpc' = [rpc EXCEPT ![s] = LoopPc(lv)]
           /\ dev_users' = LoopDevUsers(s, lv, du, dev_queue)
           /\ dev_queue' = LoopDevQueue(s, lv, du, dev_queue)
           /\ evq' = LoopEvq(s, lv, du, dev_queue, q)
    /\ status_history' =
           LET h == Record(status_history, Cur.st, now, "WaitingForRestock")
           IN  IF NeedsRestock(Withdraw(level[Cur.st],
                                        Served(level[Cur.st], getq[Cur.st])))
               THEN Record(h, Cur.st, now, "WaitingForRestock")
               ELSE h
    /\ UNCHANGED <<now, sample, confVars, facVars, itemVars, resVars, failVars, busyVars>>

\* The release event of a restock device is processed: the head of the put
\* queue of the pool is granted a device if one is free.
DeviceRelease ==
    /\ Ready /\ Cur.kind = "drelease"
    /\ dev_users' = DevUsers(dev_users, dev_queue)
    /\ dev_queue' = DevQueue(dev_users, dev_queue)
    /\ evq' = DevEvq(dev_users, dev_queue, Rest)
    /\ UNCHANGED <<now, sample, confVars, status_history, facVars, itemVars, resVars, binVars, failVars,
                   busyVars, rpc>>

Next ==
    \/ Tick
    \/ ProductionStart
    \/ ProductionArrive
    \/ BeginProcessItem
    \/ StartProcessing
    \/ FinishProcessing
    \/ Repaired
    \/ AfterRepair
    \/ ReleaseStation
    \/ ReleaseEvent
    \/ ItemNext
    \/ RaceGrant
    \/ RaceResolve
    \/ RestockCheck
    \/ RestockGranted
    \/ RestockDeposit
    \/ PutEvent
    \/ DeviceRelease

Spec == Init /\ [][Next]_vars

\* The random functions replaced by fixed values: inter-arrival 3.0,
\* processing 4.0, restock delay 2.0, and a draw of random.random() above
\* every failure probability.
FixedDraws ==
    [arr |-> 3 * TicksPerUnit, work |-> WorkTimeMean,
     restock |-> 2 * TicksPerUnit, fix |-> FixTimeMean, u |-> 50]

FixedInit ==
    /\ sample \in Samples \cup {FixedDraws}
    /\ Configured(fail_probs, FixTimeMean, WorkTimeMean)
    /\ Constructed

\* The runs of Spec and the run with the fixed draws.
FixedSpec == FixedInit /\ [][Next]_vars

\* The run of stations constructed with any of the configurations.
ConfigSpec == ConfigInit /\ [][Next]_vars

\* ------------------------------------------------ the run without a horizon
\* The same machine run past Until: no action reads the clock in a guard, so
\* the clock is kept only up to Until and stands still from there on, which
\* keeps the state space of an unbounded run finite.
Elapse(t, d) == IF t + d < Until THEN t + d ELSE Until

TickOn ==
    /\ evq # <<>>
    /\ ~Ready
    /\ now' = Elapse(now, MinDelay)
    /\ evq' = Advance(MinDelay)
    /\ UNCHANGED <<sample, confVars, status_history, facVars, itemVars, resVars, binVars, failVars,
                   busyVars, restockVars>>

Step ==
    \/ ProductionStart
    \/ ProductionArrive
    \/ BeginProcessItem
    \/ StartProcessing
    \/ FinishProcessing
    \/ Repaired
    \/ AfterRepair
    \/ ReleaseStation
    \/ ReleaseEvent
    \/ ItemNext
    \/ RaceGrant
    \/ RaceResolve
    \/ RestockCheck
    \/ RestockGranted
    \/ RestockDeposit
    \/ PutEvent
    \/ DeviceRelease

NextLive == TickOn \/ Step

\* The unbounded runs are explored for the samples in which production and
\* processing take the same time, and restock and repair take the same time.
LiveSamples == {x \in Samples : x.work = x.arr /\ x.fix = x.restock}

LiveInit ==
    /\ sample \in LiveSamples
    /\ Configured(fail_probs, FixTimeMean, WorkTimeMean)
    /\ Constructed

\* The scheduler processes the next event as long as one is pending.
LiveSpec == LiveInit /\ [][NextLive]_vars /\ WF_vars(NextLive)

\* ------------------------------------------------------------------- claims
Range(seq) == {seq[k] : k \in 1..Len(seq)}

\* Item i has a "finished at Station s" line.
InTrace(i, s) == s \in Range(trace[i])

Spawned(i) == ipc[i] # "new"

\* The routing task of item i is suspended on a request for station s that
\* has not been granted.
Waiting(i, s) ==
    \/ ipc[i] = "req" /\ cur[i] = s /\ Req(i, FALSE) \in Range(queue[s])
    \/ ipc[i] = "race" /\ s \in {PairA, PairB} /\ i \notin condTrig

\* C1: every item that has finished station 3 is eventually processed by
\* station 4 and by station 5.
C1_BothPairStationsProcess ==
    \A i \in Items :
        InTrace(i, 3) ~> (InTrace(i, PairA) /\ InTrace(i, PairB))

\* C2: every routing task the arrival generator has spawned eventually runs
\* to completion and is classified as good or faulty.
C2_EveryTaskCompletes ==
    \A i \in Items : Spawned(i) ~> (ipc[i] = "done")

Suspended(i) == \E s \in Stations : Waiting(i, s)

\* C3: a routing task suspended on a request for a station's resource is
\* eventually granted it and resumed: no task stays suspended on a request
\* forever.
C3_EveryRequestGranted ==
    \A i \in Items : Suspended(i) ~> ~Suspended(i)

Count(seq, x) == Cardinality({k \in 1..Len(seq) : seq[k] = x})

\* The stations of the pair 4/5 in the trace of item i, in order.
PairTrace(i) == SelectSeq(trace[i], LAMBDA s : s \in {PairA, PairB})

\* C4: for every item that has raced for stations 4 and 5, each of the two
\* comes to stand exactly once in its trace, never twice, and the one that
\* stands first is the one the race selected by the grants it had seen.
C4_PairExactlyOnce ==
    /\ [](\A i \in Items :
            /\ Count(trace[i], PairA) <= 1
            /\ Count(trace[i], PairB) <= 1
            /\ PairTrace(i) # <<>> => Head(PairTrace(i)) = first[i])
    /\ \A i \in Items :
          (first[i] # 0) ~> (Count(trace[i], PairA) = 1 /\ Count(trace[i], PairB) = 1)

\* C5: total_produced + faulty_products never exceeds items.
C5_OutputAtMostItems == total_produced + faulty_products <= items

C5_Witness ==
    /\ items >= 2
    /\ \E i \in Items : pos[i] >= 4
    /\ total_produced + faulty_products <= items

NoneInFlight == \A i \in Items : ipc[i] \in {"new", "done"}

\* C6 as stated: when no spawned routing task is in flight, total_produced +
\* faulty_products equals items.
C6_OutputEqualsItems ==
    NoneInFlight => total_produced + faulty_products = items

\* C6 amended: when the arrival generator is waiting for the next arrival and
\* no spawned routing task is in flight, total_produced + faulty_products
\* equals items - 1: items already counts the item that has yet to arrive.
C6_OutputEqualsItemsLessOne ==
    (ppc = "wait" /\ NoneInFlight)
        => total_produced + faulty_products = items - 1

C6_Witness == ppc = "wait" /\ NoneInFlight /\ items = 1

\* Item i is executing process_item on station s.
InProcessItem(i, s) ==
    cur[i] = s /\ ipc[i] \in {"poll", "get", "work", "fix", "fixed"}

\* C7: a station's resource is held by at most one request, and at most one
\* task is executing process_item on the station.
C7_OneHolder ==
    \A s \in Stations :
        /\ Len(users[s]) <= 1
        /\ Cardinality({i \in Items : InProcessItem(i, s)}) <= 1

C7_Witness ==
    \E s \in Stations :
        /\ Len(users[s]) = 1
        /\ Len(queue[s]) >= 2
        /\ \E i \in Items : InProcessItem(i, s) /\ ipc[i] = "work"

\* C8: a bin level is never negative, and a withdrawal stays suspended only
\* while the bin is empty (or a deposit has yet to be processed).
C8_BinNeverNegative ==
    \A s \in Stations :
        /\ level[s] >= 0
        /\ getq[s] # <<>> => (level[s] = 0 \/ rpc[s] = "put")
        /\ \A k \in 1..Len(getq[s]) : ipc[getq[s][k]] = "get"

C8_Witness ==
    \E s \in Stations : level[s] = 0 /\ getq[s] # <<>> /\ rpc[s] = "delay"

\* C9: the restock-device pool has at most 3 holders.
C9_AtMostThreeDevices == Len(dev_users) <= DeviceCapacity

C9_Witness == Len(dev_users) = DeviceCapacity /\ dev_queue # <<>>

\* C10: for every station busy_time + total_downtime is at most env.now, and
\* no item is being processed on a station while it is broken.
C10_BusyPlusDownAtMostNow ==
    \A s \in Stations :
        /\ busy_time[s] + total_downtime[s] <= now
        /\ is_broken[s] => ~\E i \in Items : cur[i] = s /\ ipc[i] = "work"

C10_Witness ==
    \E s \in Stations :
        busy_time[s] > 0 /\ total_downtime[s] > 0 /\ num_breakdowns[s] >= 1

\* C11: whenever the bin of a station is below the restock threshold its
\* restock loop eventually deposits 25 units, and a withdrawal suspended on
\* the bin is eventually served.
C11_RestockEventuallyDeposits ==
    \A s \in Stations :
        /\ NeedsRestock(level[s]) ~> (rpc[s] = "put")
        /\ (getq[s] # <<>>) ~> (getq[s] = <<>>)

C11_Witness ==
    \E s \in Stations :
        rpc[s] = "put" /\ getq[s] # <<>> /\ level[s] = RestockAmount

\* C12: when every station is constructed with failure probability 0, no
\* station ever breaks down: num_breakdowns stays 0 and is_broken stays false.
C12_NoFailureNoBreakdown ==
    (\A s \in Stations : fail_prob[s] = 0)
        => \A s \in Stations : num_breakdowns[s] = 0 /\ ~is_broken[s]

C12_Witness ==
    /\ \A s \in Stations : fail_prob[s] = 0
    /\ sample.u = 0
    /\ InTrace(CheckEvery, 1)
    /\ count_since_check[1] = 0

\* C13: with the fixed draws (inter-arrival 3.0, processing 4.0, no breakdown,
\* restock delay 2.0) the first item finishes processing at station 1 at time
\* 7.0 and not before, and the bin of station 1 holds 24 units from the item's
\* withdrawal until it has finished.
C13_FirstItemAtSeven ==
    sample = FixedDraws =>
        /\ (cur[1] = 1 /\ ipc[1] = "pi_done") => now = 7 * TicksPerUnit
        /\ InTrace(1, 1) => now >= 7 * TicksPerUnit
        /\ (cur[1] = 1 /\ ipc[1] \in {"get", "work", "pi_done"})
              => level[1] = BinInit - 1

C13_Witness ==
    /\ sample = FixedDraws
    /\ cur[1] = 1 /\ ipc[1] = "pi_done"
    /\ busy_time[1] = WorkTimeMean
    /\ items = 3

\* Which steps the scheduler can take from the current state.
EnabledSteps ==
    << ENABLED Tick, ENABLED ProductionStart, ENABLED ProductionArrive,
       ENABLED BeginProcessItem, ENABLED StartProcessing,
       ENABLED FinishProcessing, ENABLED Repaired, ENABLED AfterRepair,
       ENABLED ReleaseStation, ENABLED ReleaseEvent, ENABLED ItemNext,
       ENABLED RaceGrant, ENABLED RaceResolve, ENABLED RestockCheck,
       ENABLED RestockGranted, ENABLED RestockDeposit, ENABLED PutEvent,
       ENABLED DeviceRelease >>

\* The pending events stand in the order of their times.
InTimeOrder == \A k \in 1..(Len(evq) - 1) : evq[k].t <= evq[k + 1].t

Extends(h, g) == Len(h) >= Len(g) /\ SubSeq(h, 1, Len(g)) = g

ValidConfig(s) ==
    /\ fail_prob[s] \in 0..100
    /\ fix_time_mean[s] >= 0
    /\ work_time_mean[s] >= 0

\* C16: a station with an invalid configuration is rejected at construction:
\* no process of the simulation is started from it and nothing ever runs.
C16_InvalidConfigRejected ==
    (\E s \in Stations : ~ValidConfig(s))
        => (evq = <<>> /\ items = 0 /\ now = 0)

\* C17: every request that holds a station's resource, the raced requests
\* for stations 4 and 5 included, is eventually released.  A resource has one
\* holder at most and a release empties users before the next grant, so the
\* holder of station s is released exactly when users[s] becomes empty.
C17_EveryGrantReleased ==
    \A s \in Stations : (users[s] # <<>>) ~> (users[s] = <<>>)

\* The other station of the pair 4/5.
Other(s) == IF s = PairA THEN PairB ELSE PairA

\* Item i has a request, granted or pending, on the resource of station s.
HasRequest(i, s) ==
    \E r \in Range(users[s]) \cup Range(queue[s]) : r.item = i

\* C18: while an item is being processed at the first station of the pair
\* 4/5 it neither holds nor has a pending request on the resource of the
\* other station: the second request is issued only after the first station
\* has been finished and released.
C18_SecondRequestAfterFirst ==
    \A i \in Items :
        (pos[i] = 3 /\ first[i] # 0 /\ InProcessItem(i, first[i]))
            => ~HasRequest(i, Other(first[i]))

\* The stations that come before station s in the sequence 1, 2, 3, {4, 5}, 6.
Earlier(s) ==
    IF s <= 3 THEN 1..(s - 1)
    ELSE IF s \in {PairA, PairB} THEN 1..3
    ELSE 1..(LastStation - 1)

\* C19: an item is in process_item on a station only when it has finished
\* every earlier station of the sequence 1, 2, 3, {4, 5}, 6 and has no
\* request left on any of them; its finished stations stand in that order in
\* its trace; and it is classified only after it has finished station 6.
C19_FixedStationOrder ==
    \A i \in Items :
        /\ \A s \in Stations :
              InProcessItem(i, s) =>
                  \A e \in Earlier(s) : InTrace(i, e) /\ ~HasRequest(i, e)
        /\ \A k \in 1..Len(trace[i]) :
              Earlier(trace[i][k]) \subseteq Range(SubSeq(trace[i], 1, k - 1))
        /\ ipc[i] = "done" => InTrace(i, LastStation)

C19_Witness ==
    \E i \in Items :
        /\ InProcessItem(i, PairA) /\ ipc[i] = "work"
        /\ trace[i] = <<1, 2, 3>>
        /\ \E j \in Items : j # i /\ InProcessItem(j, 2)

\* C20: while a station is broken its resource is held by the request of the
\* item whose completion triggered the breakdown, which is waiting for the
\* repair inside break_station; no step taken while the station is broken
\* changes the holder, so the release comes only after the repair.
C20_HeldWhileBroken ==
    /\ [](\A s \in Stations :
            is_broken[s] =>
                \E i \in Items :
                    /\ cur[i] = s /\ ipc[i] = "fix"
                    /\ users[s] = <<HeldReq(i, s)>>)
    /\ [][\A s \in Stations : is_broken[s] => users'[s] = users[s]]_vars

C20_Witness ==
    \E s \in Stations :
        /\ is_broken[s]
        /\ now > last_break_time[s]
        /\ Len(users[s]) = 1
        /\ queue[s] # <<>>

\* How many items station s has completed: those that have left it and the
\* one, if any, that is past its processing timeout and still on it.
Completed(s) ==
    Cardinality({i \in Items :
        \/ InTrace(i, s)
        \/ cur[i] = s /\ ipc[i] \in {"fix", "fixed", "pi_done", "error"}})

\* C21: count_since_check is in 0..4 and counts the completed items of the
\* station modulo 5; a station is broken only right after its 5th, 10th, ...
\* completed item; and num_breakdowns is at most a fifth of the completed
\* items.
C21_TrialEveryFifthItem ==
    \A s \in Stations :
        /\ count_since_check[s] \in 0..(CheckEvery - 1)
        /\ count_since_check[s] = Completed(s) % CheckEvery
        /\ is_broken[s] => (Completed(s) > 0 /\ Completed(s) % CheckEvery = 0)
        /\ num_breakdowns[s] * CheckEvery <= Completed(s)

C21_Witness ==
    \E s \in Stations :
        /\ num_breakdowns[s] = 2
        /\ is_broken[s]
        /\ Completed(s) = 2 * CheckEvery

\* The arrival generator's timeout is among the pending events.
ArrivalPending == \E k \in 1..Len(evq) : evq[k].kind = "prod"

\* C22: the arrival generator is only ever suspended on its inter-arrival
\* delay, whatever the items are doing, and so every arrival comes: each
\* item up to the bound of the model is eventually spawned.
C22_ArrivalsKeepComing ==
    /\ [](ppc = "wait" => ArrivalPending)
    /\ <>(items = MaxItems /\ \A i \in Items : Spawned(i))

C22_Witness ==
    /\ items = MaxItems
    /\ ppc = "wait"
    /\ Waiting(1, PairB)
    /\ Len(queue[PairB]) >= 3
    /\ Len(queue[1]) >= 2

\* C23: a station has at most one request on the device pool, and it has one
\* exactly from the start of a replenishment to the processing of its
\* deposit; a replenishment starts only on a level below 5; the level goes up
\* only by a deposit of exactly 25 made while the station holds a device; and
\* the device is given back only after the deposit.
C23_OneDevicePerReplenishment ==
    /\ [](\A s \in Stations :
            /\ Count(dev_users, s) + Count(dev_queue, s) <= 1
            /\ rpc[s] = "loop" <=> Count(dev_users, s) + Count(dev_queue, s) = 0
            /\ rpc[s] \in {"delay", "put"} => Count(dev_users, s) = 1)
    /\ [][\A s \in Stations :
            /\ (rpc[s] # "wait_dev" /\ rpc'[s] = "wait_dev")
                  => NeedsRestock(level'[s])
            /\ level'[s] > level[s]
                  => /\ level'[s] = level[s] + RestockAmount
                     /\ rpc[s] = "delay" /\ Count(dev_users, s) = 1
                     /\ Count(dev_users', s) = 1
            /\ (Count(dev_users, s) = 1 /\ Count(dev_users', s) = 0)
                  => rpc[s] = "put"]_vars

C23_Witness ==
    \E s \in Stations :
        /\ rpc[s] = "put"
        /\ Count(dev_users, s) = 1
        /\ level[s] >= RestockAmount
        /\ dev_queue # <<>>

\* The Operational entries of the history of station s, in order.
Operational(s) ==
    SelectSeq(status_history[s], LAMBDA e : e.status = "Operational")

\* The time between the entries 2k - 1 and 2k of h, summed over the first n
\* such pairs.
RECURSIVE Spans(_, _)
Spans(h, n) ==
    IF n = 0 THEN 0
    ELSE Spans(h, n - 1) + (h[2 * n].timestamp - h[2 * n - 1].timestamp)

\* An item is between start_processing and finish_processing on station s.
InWork(s) == \E i \in Items : cur[i] = s /\ ipc[i] = "work"

C25_NothingProduced ==
    /\ total_produced = 0 /\ faulty_products = 0
    /\ pos[1] >= 3 => (users[PairB] = <<Req(1, TRUE)>> /\ first[1] \in {0, PairA})
    /\ \A i \in Items :
          /\ pos[i] <= 4
          /\ pos[i] = 4 => (ipc[i] = "req" /\ Waiting(i, Other(first[i])))
          /\ ~InProcessItem(i, LastStation)

C25_Witness ==
    /\ Waiting(1, PairB) /\ pos[1] = 4
    /\ Waiting(2, PairB) /\ pos[2] = 4
    /\ total_produced + faulty_products = 0

\* The raced request of item i for station s has been granted.
RaceGranted(i, s) == Req(i, TRUE) \in Range(users[s])

\* C26: when the race of an item resolves, station 4 is selected if the
\* item's request for station 4 has been granted, in particular if both
\* requests have been; station 5 is selected only if the request for
\* station 4 is still ungranted.
C26_PairAFirstWhenBothGranted ==
    [][\A i \in Items :
          (first[i] = 0 /\ first'[i] # 0) =>
              /\ RaceGranted(i, PairA) \/ RaceGranted(i, PairB)
              /\ RaceGranted(i, PairA) => first'[i] = PairA
              /\ first'[i] = PairB => ~RaceGranted(i, PairA)]_vars

C26_Witness ==
    /\ first[1] = PairA /\ cur[1] = PairA /\ ipc[1] = "get"
    /\ RaceGranted(1, PairA) /\ RaceGranted(1, PairB)

\* C27: a task begins process_item on a station only when the station is not
\* broken, so no task is ever in the polling loop; and a station is broken
\* only while the task that holds it is inside the same process_item call,
\* between the breakdown and its repair.
C27_NeverPolls ==
    /\ [](\A i \in Items : ipc[i] # "poll")
    /\ [](\A s \in Stations :
            is_broken[s] => \E i \in Items : InProcessItem(i, s) /\ ipc[i] = "fix")
    /\ [][\A i \in Items :
            (ipc[i] \in {"req", "race"} /\ ipc'[i] \notin {"req", "race"})
                => (~is_broken[cur'[i]] /\ HasRequest(i, cur'[i]))]_vars

C27_Witness ==
    \E s \in Stations :
        /\ num_breakdowns[s] >= 1 /\ total_downtime[s] > 0
        /\ ~is_broken[s]
        /\ \E i \in Items : cur[i] = s /\ ipc[i] = "get"

\* C28: a bin level never exceeds 29: from the moment the restock loop has
\* seen a level below 5 until its deposit the level stays below 5, and the
\* deposit adds 25.
C28_BinAtMostTwentyNine ==
    \A s \in Stations :
        /\ level[s] <= RestockThreshold - 1 + RestockAmount
        /\ rpc[s] \in {"wait_dev", "delay"} => NeedsRestock(level[s])

C28_Witness ==
    \E s \in Stations :
        level[s] = RestockThreshold - 1 + RestockAmount /\ rpc[s] = "put"
====
